---- MODULE Spec2Model ----
(***************************************************************************)
(* Model of autopkg/autopkg_tools.py: the wrapper that runs AutoPkg for a  *)
(* batch of recipes, commits each import on a feature branch of the munki  *)
(* repository, pushes it, opens a pull request and posts a Slack report.   *)
(*                                                                         *)
(* Text that the program transforms (recipe identifiers, branch names,     *)
(* versions) is a sequence of one-character strings.  Text that it only    *)
(* formats is a record [fmt, args]: the format string and its arguments.   *)
(* A python dict is a function whose domain is its key set.                *)
(***************************************************************************)
EXTENDS Integers, Sequences, FiniteSets, TLC

VARIABLES
    INPUT_RECIPES,  \* os.environ['INPUT_RECIPES'].split()
    WEBHOOK_URL,    \* os.environ['SLACK_WEBHOOK']
    GITHUB_TOKEN,   \* os.environ['GITHUB_TOKEN']
    overrides,      \* file names below autopkg/RecipeOverrides, in walk order
    repo,           \* the checkout at REPO_DIR: [branches, head, dirty, origin]
    report,         \* the file report.plist: [state, data]
    pc,             \* position inside handle_recipes
    recipes,        \* handle_recipes: recipes
    idx,            \* index of the recipe the for loop is at
    branchname,     \* handle_recipes: branchname
    run_results,    \* handle_recipes: run_results
    branch_version, \* handle_recipes: branch_version
    push_result,    \* handle_recipes: push_result
    imported,       \* handle_recipes: imported
    failed,         \* handle_recipes: failed
    git_errors,     \* handle_recipes: git_errors
    exc,            \* the exception that left handle_recipes, if any
    payload,        \* the message handed to post_to_slack
    log,            \* history: the external commands issued, in order
    pre             \* history: repository and lists when the current recipe began

vars == <<INPUT_RECIPES, WEBHOOK_URL, GITHUB_TOKEN, overrides, repo, report, pc,
          recipes, idx, branchname, run_results, branch_version, push_result,
          imported, failed, git_errors, exc, payload, log, pre>>

(***************************************************************************)
(* Bounds of the exploration.                                              *)
(***************************************************************************)
MaxRecipes == 2     \* longest batch explored
MaxItems == 2       \* longest list handed to format_slack_message alone
MaxIdLen == 2       \* longest free text on either side of a suffix marker

(***************************************************************************)
(* Text.                                                                   *)
(***************************************************************************)
UpperChars == <<"A","B","C","D","E","F","G","H","I","J","K","L","M",
                "N","O","P","Q","R","S","T","U","V","W","X","Y","Z">>
LowerChars == <<"a","b","c","d","e","f","g","h","i","j","k","l","m",
                "n","o","p","q","r","s","t","u","v","w","x","y","z">>

\* str.lower, one character
LowerChar(c) ==
    IF \E k \in DOMAIN UpperChars : UpperChars[k] = c
    THEN LowerChars[CHOOSE k \in DOMAIN UpperChars : UpperChars[k] = c]
    ELSE c

\* str.lower
str_lower(s) == [k \in 1..Len(s) |-> LowerChar(s[k])]

\* str.replace(old, new) for one-character old and new
str_replace(s, old, new) == [k \in 1..Len(s) |-> IF s[k] = old THEN new ELSE s[k]]

\* sub occurs in s at position k
OccursAt(s, sub, k) ==
    /\ k + Len(sub) - 1 <= Len(s)
    /\ SubSeq(s, k, k + Len(sub) - 1) = sub

\* str.split(sep)[0]: the text before the first occurrence of sep
split_first(s, sep) ==
    IF \E k \in 1..Len(s) : OccursAt(s, sep, k)
    THEN LET first == CHOOSE k \in 1..Len(s) :
                          /\ OccursAt(s, sep, k)
                          /\ \A j \in 1..(k - 1) : ~OccursAt(s, sep, j)
         IN  SubSeq(s, 1, first - 1)
    ELSE s

\* str.endswith
str_endswith(s, suffix) ==
    /\ Len(suffix) <= Len(s)
    /\ SubSeq(s, Len(s) - Len(suffix) + 1, Len(s)) = suffix

\* str(b): python's text of a bytes value, b'...'
str_of_bytes(b) == <<"b", "'">> \o b \o <<"'">>

\* a formatted text: the format and the values put into it
Fmt(fmt, args) == [fmt |-> fmt, args |-> args]
NoArgs == [k \in {} |-> 0]

MunkiMarker == <<".","m","u","n","k","i">>
RecipeExt == <<".","r","e","c","i","p","e">>
Suffix2 == <<"-","2">>
Hyphen == <<"-">>
master == <<"m","a","s","t","e","r">>
main == <<"m","a","i","n">>
foo == <<"f","o","o">>
foo_2 == foo \o Suffix2
bar == <<"b","a","r">>
v12 == <<"1",".","2">>
v13 == <<"1",".","3">>
foo_12 == foo \o Hyphen \o v12
foo_12_2 == foo_12 \o Suffix2
Foo == <<"F","o","o">>
NoName == <<>>

\* recipe identifiers of the explored batches; INPUT_RECIPES is split at white
\* space, so none of them holds a space
IdFoo == Foo \o MunkiMarker
IdBar == <<"B","a","r">> \o MunkiMarker
Identifiers == {IdFoo, IdBar}

\* directory listings of autopkg/RecipeOverrides
FileFoo == IdFoo \o RecipeExt
FileMyApp == <<"M","y"," ","A">> \o MunkiMarker \o RecipeExt
FileReadme == <<"R","E","A","D","M","E">>
FileHidden == MunkiMarker \o RecipeExt     \* its base name is empty
Listings == {<<>>, <<FileMyApp, FileReadme, FileHidden>>}

(***************************************************************************)
(* Exceptions.                                                             *)
(***************************************************************************)
NoExc == [type |-> "none"]

\* git_run: GitError("Git error: %s" % results['stderr']), stderr being bytes
GitError(stderr) ==
    [type |-> "GitError", fmt |-> "Git error: %s", args |-> [bytes |-> stderr]]

\* change_feature_branch: BranchError("Couldn't switch to '%s': %s" % (branch, e))
BranchError(branch, e) ==
    [type |-> "BranchError", fmt |-> "Couldn't switch to '%s': %s",
     args |-> [branch |-> branch, e |-> e]]

KeyError(key) == [type |-> "KeyError", args |-> [key |-> key]]
FileNotFoundError == [type |-> "FileNotFoundError"]
InvalidFileException == [type |-> "InvalidFileException"]
ConnectionError == [type |-> "ConnectionError"]

(***************************************************************************)
(* git, as run_cmd sees it: each command maps the repository to a result   *)
(* [ok, out, err, repo].                                                   *)
(***************************************************************************)
GitOk(out, r) == [ok |-> TRUE, out |-> out, err |-> "", repo |-> r]
GitFail(err, r) == [ok |-> FALSE, out |-> NoName, err |-> err, repo |-> r]

\* git check-ref-format, as far as the explored names go
ValidRef(n) == n # NoName /\ \A k \in 1..Len(n) : n[k] # " "

\* git checkout <branch>, for a checkout that tracks no other remote branch
git_checkout(r, b) ==
    IF b \in r.branches
    THEN GitOk(NoName, [r EXCEPT !.head = b])
    ELSE GitFail("pathspec did not match", r)

\* git checkout -b <branch>
git_checkout_b(r, b) ==
    IF ~ValidRef(b) THEN GitFail("not a valid branch name", r)
    ELSE IF b \in r.branches THEN GitFail("branch already exists", r)
    ELSE GitOk(NoName, [r EXCEPT !.branches = @ \cup {b}, !.head = b])

\* git add <REPO_DIR> followed by git commit -m <message>
git_commit(r) ==
    IF r.dirty
    THEN GitOk(NoName, [r EXCEPT !.dirty = FALSE])
    ELSE GitFail("nothing to commit", r)

\* git branch -m <old> <new>
git_branch_m(r, old, new) ==
    IF old \notin r.branches THEN GitFail("no such branch", r)
    ELSE IF ~ValidRef(new) THEN GitFail("not a valid branch name", r)
    ELSE IF new \in r.branches /\ new # old THEN GitFail("branch already exists", r)
    ELSE GitOk(NoName,
               [r EXCEPT !.branches = (@ \ {old}) \cup {new},
                         !.head = IF @ = old THEN new ELSE @])

\* git push --set-upstream origin <branch>; the remote may reject it
PushErrors == {"remote rejected"}
git_push_cmd(r, b, accepted, err) ==
    IF b \notin r.branches THEN GitFail("src refspec does not match any", r)
    ELSE IF ~accepted THEN GitFail(err, r)
    ELSE GitOk(NoName, [r EXCEPT !.origin = @ \cup {b}])

(***************************************************************************)
(* Python containers.                                                      *)
(***************************************************************************)
EmptyDict == [k \in {} |-> 0]

\* truth value of a dict or a list: non-empty
Truthy(x) == DOMAIN x # {}

\* dict.get(key, default)
dict_get(d, key, default) == IF key \in DOMAIN d THEN d[key] ELSE default

\* d[key] = value
dict_set(d, key, value) ==
    [k \in DOMAIN d \cup {key} |-> IF k = key THEN value ELSE d[k]]

(***************************************************************************)
(* report.plist as AutoPkg may leave it for a recipe.                      *)
(***************************************************************************)
Row1 == [name |-> Foo, version |-> v12]
Row2 == [name |-> Foo, version |-> v13]
Failure(recipe, message) == [recipe |-> recipe, message |-> message]
Failure1(recipe) == Failure(recipe, "download failed")
Failure2(recipe) == Failure(recipe, "no pkg found")

Importer(rows) == [munki_importer_summary_result |-> [data_rows |-> rows]]
Downloader == [url_downloader_summary_result |-> [data_rows |-> <<[name |-> Foo]>>]]

RepNothing == [summary_results |-> EmptyDict, failures |-> <<>>]
RepImported == [summary_results |-> Importer(<<Row1, Row2>>), failures |-> <<>>]
RepFailed(recipe) ==
    [summary_results |-> EmptyDict, failures |-> <<Failure1(recipe), Failure2(recipe)>>]
RepBoth(recipe) ==
    [summary_results |-> Importer(<<Row1>>),
     failures |-> <<Failure1(recipe), Failure2(recipe)>>]
RepDownloadOnly == [summary_results |-> Downloader, failures |-> <<>>]
RepNoSummary(recipe) == [failures |-> <<Failure1(recipe)>>]
RepNoFailures == [summary_results |-> Importer(<<Row1>>)]

ReportData(recipe) ==
    {RepNothing, RepImported, RepFailed(recipe), RepBoth(recipe),
     RepDownloadOnly, RepNoSummary(recipe), RepNoFailures}

Plist(data) == [state |-> "plist", data |-> data]
NoFile == [state |-> "absent", data |-> EmptyDict]
Garbled == [state |-> "malformed", data |-> EmptyDict]

\* what one AutoPkg run can write to report.plist
WrittenReports(recipe) == {Plist(d) : d \in ReportData(recipe)} \cup {Garbled}

\* the rows the munki importer reported: the packages it put into the repository
ImportedRows(file) ==
    IF file.state = "plist" /\ "summary_results" \in DOMAIN file.data
    THEN dict_get(dict_get(file.data.summary_results,
                           "munki_importer_summary_result", EmptyDict),
                  "data_rows", <<>>)
    ELSE <<>>

(***************************************************************************)
(* Results of the program's functions: the exception raised (or NoExc),    *)
(* the value returned, the repository afterwards and the commands issued.  *)
(***************************************************************************)
Cmd(op, arg, g, r) ==
    [op |-> op, i |-> 0, arg |-> arg, ok |-> g.ok, err |-> g.err,
     head |-> r.head, live |-> r.branches, base |-> NoName,
     msg |-> Fmt("", NoArgs)]

Result(e, value, r, cmds) == [exc |-> e, value |-> value, repo |-> r, cmds |-> cmds]
Raised(res) == res.exc.type # "none"

\* git_run: raises GitError when the command failed
git_run(op, arg, g, r) ==
    Result(IF g.ok THEN NoExc ELSE GitError(g.err), g.out, g.repo,
           <<Cmd(op, arg, g, r)>>)

\* get_recipes: the files below RecipeOverrides that end in .recipe
get_recipes(files) == SelectSeq(files, LAMBDA f : str_endswith(f, RecipeExt))

\* branch_list: the names git branch prints, the marker of the current one stripped
branch_list(r) == r.branches

\* line 84 without .lower()
normalize_keeps_case(identifier) ==
    split_first(str_replace(identifier, " ", "-"), MunkiMarker)

\* parse_recipe_name, line 84
normalize(identifier) ==
    split_first(str_lower(str_replace(identifier, " ", "-")), MunkiMarker)

\* parse_recipe_name without the collision suffix
parse_recipe_name_no_suffix(identifier, r) == normalize(identifier)

\* parse_recipe_name looking the identifier up instead of the branch name
parse_recipe_name_raw_lookup(identifier, r) ==
    LET branch == normalize(identifier)
    IN  IF identifier \in branch_list(r) THEN branch \o Suffix2 ELSE branch

\* parse_recipe_name
parse_recipe_name(identifier, r) ==
    LET branch == normalize(identifier)
    IN  IF branch \in branch_list(r) THEN branch \o Suffix2 ELSE branch

\* current_branch: str() of the bytes git printed
current_branch(r) == str_of_bytes(r.head)

\* change_feature_branch
change_feature_branch(r, branch, new) ==
    LET g == IF new THEN git_checkout_b(r, branch) ELSE git_checkout(r, branch)
        res == git_run(IF new THEN "checkout_b" ELSE "checkout", branch, g, r)
    IN  IF Raised(res)
        THEN Result(BranchError(branch, res.exc), NoName, res.repo, res.cmds)
        ELSE res

\* create_feature_branch without lines 151-153: the branch starts where HEAD is
create_feature_branch_from_current(r, branch) ==
    change_feature_branch(r, branch, TRUE)

\* create_feature_branch creating the branch without switching to it
create_feature_branch_no_switch(r, branch) ==
    LET first == IF current_branch(r) # master
                 THEN change_feature_branch(r, master, FALSE)
                 ELSE Result(NoExc, NoName, r, <<>>)
    IN  IF Raised(first) THEN first
        ELSE LET second == change_feature_branch(first.repo, branch, TRUE)
             IN  [second EXCEPT !.cmds = first.cmds \o @,
                                !.repo = [@ EXCEPT !.head = first.repo.head]]

\* create_feature_branch
create_feature_branch(r, branch) ==
    LET first == IF current_branch(r) # master
                 THEN change_feature_branch(r, master, FALSE)
                 ELSE Result(NoExc, NoName, r, <<>>)
    IN  IF Raised(first) THEN first
        ELSE LET second == change_feature_branch(first.repo, branch, TRUE)
             IN  [second EXCEPT !.cmds = first.cmds \o @]

\* create_commit: git add, then git commit -m "Update <name> to version <version>"
commit_message(item) ==
    Fmt("Update %s to version %s", [name |-> item.name, version |-> item.version])

create_commit(r, imported_item) ==
    LET add == git_run("add", NoName, GitOk(NoName, r), r)
        res == git_run("commit", NoName, git_commit(r), r)
    IN  [res EXCEPT !.cmds = add.cmds \o
                        <<[@[1] EXCEPT !.msg = commit_message(imported_item)]>>]

\* rename_branch_version returning the name without the collision suffix
rename_branch_version_returns_plain(r, branch, version) ==
    LET plain == branch \o Hyphen \o version
        new_branch_name == IF plain \in branch_list(r) THEN plain \o Suffix2 ELSE plain
        res == git_run("rename", new_branch_name,
                       git_branch_m(r, branch, new_branch_name), r)
    IN  [res EXCEPT !.value = plain]

\* rename_branch_version
rename_branch_version(r, branch, version) ==
    LET plain == branch \o Hyphen \o version
        new_branch_name == IF plain \in branch_list(r) THEN plain \o Suffix2 ELSE plain
        res == git_run("rename", new_branch_name,
                       git_branch_m(r, branch, new_branch_name), r)
    IN  [res EXCEPT !.value = new_branch_name]

\* git_push letting the GitError of a failed push through
git_push_raises(r, branch, accepted, err) ==
    git_run("push", branch, git_push_cmd(r, branch, accepted, err), r)

\* git_push: a failed push is returned, not raised
git_push(r, branch, accepted, err) ==
    LET res == git_run("push", branch, git_push_cmd(r, branch, accepted, err), r)
    IN  Result(NoExc,
               IF Raised(res)
               THEN [success |-> FALSE, error |-> res.exc, branch |-> branch]
               ELSE [success |-> TRUE],
               res.repo, res.cmds)

\* pull_request: gh pr create -B main -H <branchname> -f, its result dropped
pull_request(r, token, branchname_, created) ==
    IF token = ""
    THEN Result(NoExc, NoName, r, <<>>)
    ELSE Result(NoExc, NoName, r,
                <<[Cmd("pr", branchname_, [ok |-> created, err |-> ""], r)
                       EXCEPT !.base = main]>>)

\* parse_report_plist
parse_report_plist(file) ==
    IF file.state = "absent" THEN Result(FileNotFoundError, EmptyDict, 0, <<>>)
    ELSE IF file.state = "malformed" THEN Result(InvalidFileException, EmptyDict, 0, <<>>)
    ELSE IF "summary_results" \notin DOMAIN file.data
         THEN Result(KeyError("summary_results"), EmptyDict, 0, <<>>)
    ELSE IF "failures" \notin DOMAIN file.data
         THEN Result(KeyError("failures"), EmptyDict, 0, <<>>)
    ELSE LET munki_results == dict_get(file.data.summary_results,
                                       "munki_importer_summary_result", EmptyDict)
             imported_items == IF Truthy(file.data.summary_results)
                               THEN dict_get(munki_results, "data_rows", <<>>)
                               ELSE <<>>
             failed_items == IF Truthy(file.data.failures)
                             THEN file.data.failures
                             ELSE <<>>
         IN  Result(NoExc, [imported |-> imported_items, failed |-> failed_items],
                    0, <<>>)

(***************************************************************************)
(* The Slack message.                                                      *)
(***************************************************************************)
Section(kind, text) == [type |-> "section", text |-> [type |-> kind, text |-> text]]
Divider == [type |-> "divider"]
Lit(text) == Fmt(text, NoArgs)
\* In the format strings below <fence> stands for the three backquotes of a Slack
\* code fence and <bullet> for the bullet character: a TLA+ string holds neither.

SummaryBlock == Section("mrkdwn", Lit(":package: *AutoPkg has finished running*"))
NothingBlock ==
    Section("mrkdwn", Lit("There are no new items to be imported into Munki"))
ImportedHeader ==
    Section("plain_text",
            Lit("The following items will be imported into munki after approval"))
FailuresHeader == Section("mrkdwn", Lit(":warning: *The following recipes failed*"))
GitHeader == Section("mrkdwn", Lit(":github: *Git errors*"))

\* imported_message
imported_message(imported_) ==
    <<ImportedHeader>> \o
    [k \in 1..Len(imported_) |->
        Section("mrkdwn",
                Fmt("<bullet> {name} version {version}",
                    [name |-> imported_[k]["branchname"],
                     version |-> imported_[k]["version"]]))]

\* the two blocks failures_message adds for one failed recipe
failure_info(item) ==
    <<Section("mrkdwn", Fmt("{name}", [name |-> item["recipe"]])),
      Section("mrkdwn", Fmt("<fence>{info}<fence>", [info |-> item["message"]]))>>

RECURSIVE failure_blocks(_)
failure_blocks(failed_) ==
    IF failed_ = <<>> THEN <<>>
    ELSE failure_info(Head(failed_)) \o failure_blocks(Tail(failed_))

\* failures_message
failures_message(failed_) ==
    <<[color |-> "#f2c744",
       blocks |-> <<Divider, FailuresHeader>> \o failure_blocks(failed_)]>>

\* git_errors_message
git_errors_message(git_info) ==
    <<[color |-> "#f2c744",
       blocks |-> <<Divider, GitHeader>> \o
           [k \in 1..Len(git_info) |->
               Section("mrkdwn",
                       Fmt("error pushing branch: {name} <fence>{info}<fence>",
                           [name |-> git_info[k]["branch"],
                            info |-> git_info[k]["error"]]))]]>>

\* format_slack_message with the git errors put before the failures
format_slack_message_git_first(imported_, failed_, git_info) ==
    LET first == [color |-> "#4bb543",
                  blocks |-> <<SummaryBlock>> \o
                      (IF ~Truthy(imported_)
                       THEN <<NothingBlock>>
                       ELSE imported_message(imported_))]
    IN  [blocks |-> <<>>,
         attachments |-> <<first>>
             \o (IF Truthy(git_info) THEN git_errors_message(git_info) ELSE <<>>)
             \o (IF Truthy(failed_) THEN failures_message(failed_) ELSE <<>>)]

\* format_slack_message
format_slack_message(imported_, failed_, git_info) ==
    LET first == [color |-> "#4bb543",
                  blocks |-> <<SummaryBlock>> \o
                      (IF ~Truthy(imported_)
                       THEN <<NothingBlock>>
                       ELSE imported_message(imported_))]
    IN  [blocks |-> <<>>,
         attachments |-> <<first>>
             \o (IF Truthy(failed_) THEN failures_message(failed_) ELSE <<>>)
             \o (IF Truthy(git_info) THEN git_errors_message(git_info) ELSE <<>>)]

NoPayload == [blocks |-> <<>>, attachments |-> <<>>]

(***************************************************************************)
(* handle_recipes, one action per statement that talks to the outside.     *)
(***************************************************************************)
Stamp(cmds) == [k \in 1..Len(cmds) |-> [cmds[k] EXCEPT !.i = idx]]

Snapshot ==
    [branches |-> repo.branches, head |-> repo.head, imported |-> imported,
     failed |-> failed, git_errors |-> git_errors]

\* an exception nobody catches ends the program
Abort(e) == pc' = "aborted" /\ exc' = e

env == <<INPUT_RECIPES, WEBHOOK_URL, GITHUB_TOKEN, overrides>>
locals == <<branchname, run_results, branch_version, push_result>>
lists == <<imported, failed, git_errors>>

\* lines 362-365
Start ==
    /\ pc = "start"
    /\ recipes' = IF Truthy(INPUT_RECIPES) THEN INPUT_RECIPES ELSE get_recipes(overrides)
    /\ pc' = "loop"
    /\ UNCHANGED <<env, repo, report, idx, locals, lists, exc, payload, log, pre>>

\* line 366: the next recipe, or the end of the loop
Loop ==
    /\ pc = "loop"
    /\ IF idx < Len(recipes)
       THEN /\ idx' = idx + 1
            /\ pc' = "derive"
            /\ pre' = Snapshot
       ELSE /\ pc' = "notify"
            /\ UNCHANGED <<idx, pre>>
    /\ UNCHANGED <<env, repo, report, recipes, locals, lists, exc, payload, log>>

\* line 368
Derive ==
    /\ pc = "derive"
    /\ branchname' = parse_recipe_name(recipes[idx], repo)
    /\ log' = log \o Stamp(<<Cmd("derive", branchname', GitOk(NoName, repo), repo)>>)
    /\ pc' = "ensure"
    /\ UNCHANGED <<env, repo, report, recipes, idx, run_results, branch_version,
                   push_result, lists, exc, payload, pre>>

\* line 370
Ensure ==
    /\ pc = "ensure"
    /\ LET res == create_feature_branch(repo, branchname)
       IN  /\ repo' = res.repo
           /\ log' = log \o Stamp(res.cmds)
           /\ IF Raised(res) THEN Abort(res.exc) ELSE pc' = "run" /\ exc' = exc
    /\ UNCHANGED <<env, report, recipes, idx, locals, lists, payload, pre>>

\* line 372: AutoPkg writes report.plist (the munki importer has then put the
\* reported packages into the repository), or ends without writing it; its exit
\* status is not looked at
RunTool ==
    /\ pc = "run"
    /\ \/ \E new \in WrittenReports(recipes[idx]) :
             /\ report' = new
             /\ repo' = [repo EXCEPT !.dirty = @ \/ Truthy(ImportedRows(new))]
             /\ log' = log \o Stamp(<<Cmd("autopkg", recipes[idx],
                                          [ok |-> TRUE, err |-> ""], repo)>>)
       \/ /\ UNCHANGED <<report, repo>>
          /\ log' = log \o Stamp(<<Cmd("autopkg", recipes[idx],
                                       [ok |-> FALSE, err |-> ""], repo)>>)
    /\ pc' = "parse"
    /\ UNCHANGED <<env, recipes, idx, locals, lists, exc, payload, pre>>

\* line 374
Parse ==
    /\ pc = "parse"
    /\ LET res == parse_report_plist(report)
       IN  /\ log' = log \o Stamp(<<Cmd("parse", NoName,
                                        [ok |-> ~Raised(res), err |-> ""], repo)>>)
           /\ IF Raised(res)
              THEN Abort(res.exc) /\ UNCHANGED run_results
              ELSE pc' = "record" /\ run_results' = res.value /\ exc' = exc
    /\ UNCHANGED <<env, repo, report, recipes, idx, branchname, branch_version,
                   push_result, lists, payload, pre>>

\* lines 378-380 keeping every failure of the report
record_failed_all(failed_, results) == failed_ \o results["failed"]

\* lines 378-380 keeping the last failure of the report
record_failed_last(failed_, results) ==
    IF Truthy(results["failed"])
    THEN Append(failed_, results["failed"][Len(results["failed"])])
    ELSE failed_

\* lines 378-380: only the first failure of the report is kept
record_failed(failed_, results) ==
    IF Truthy(results["failed"])
    THEN Append(failed_, results["failed"][1])
    ELSE failed_

\* lines 375-381
Record ==
    /\ pc = "record"
    /\ IF ~Truthy(run_results["imported"]) /\ ~Truthy(run_results["failed"])
       THEN pc' = "loop" /\ UNCHANGED failed
       ELSE /\ failed' = record_failed(failed, run_results)
            /\ pc' = IF Truthy(run_results["imported"]) THEN "commit" ELSE "loop"
    /\ UNCHANGED <<env, repo, report, recipes, idx, locals, imported, git_errors,
                   exc, payload, log, pre>>

\* line 383
Commit ==
    /\ pc = "commit"
    /\ LET res == create_commit(repo, run_results["imported"][1])
       IN  /\ repo' = res.repo
           /\ log' = log \o Stamp(res.cmds)
           /\ IF Raised(res) THEN Abort(res.exc) ELSE pc' = "rename" /\ exc' = exc
    /\ UNCHANGED <<env, report, recipes, idx, locals, lists, payload, pre>>

\* lines 384-387
Rename ==
    /\ pc = "rename"
    /\ LET res == rename_branch_version(repo, branchname,
                                        run_results["imported"][1]["version"])
       IN  /\ repo' = res.repo
           /\ log' = log \o Stamp(res.cmds)
           /\ IF Raised(res)
              THEN Abort(res.exc) /\ UNCHANGED branch_version
              ELSE pc' = "push" /\ branch_version' = res.value /\ exc' = exc
    /\ UNCHANGED <<env, report, recipes, idx, branchname, run_results, push_result,
                   lists, payload, pre>>

\* lines 389-393 going on to the pull request whatever the push returned
Push_reviews_failed ==
    /\ pc = "push"
    /\ \E accepted \in BOOLEAN, err \in PushErrors :
          LET res == git_push(repo, branch_version, accepted, err)
          IN  /\ repo' = res.repo
              /\ log' = log \o Stamp(res.cmds)
              /\ push_result' = res.value
              /\ git_errors' = IF ~res.value["success"]
                               THEN Append(git_errors, res.value) ELSE git_errors
    /\ pc' = "review"
    /\ UNCHANGED <<env, report, recipes, idx, branchname, run_results,
                   branch_version, imported, failed, exc, payload, pre>>

\* lines 389-393
Push ==
    /\ pc = "push"
    /\ \E accepted \in BOOLEAN, err \in PushErrors :
          LET res == git_push(repo, branch_version, accepted, err)
          IN  /\ repo' = res.repo
              /\ log' = log \o Stamp(res.cmds)
              /\ IF Raised(res)
                 THEN Abort(res.exc) /\ UNCHANGED <<push_result, git_errors>>
                 ELSE /\ push_result' = res.value
                      /\ exc' = exc
                      /\ IF ~res.value["success"]
                         THEN git_errors' = Append(git_errors, res.value) /\ pc' = "loop"
                         ELSE UNCHANGED git_errors /\ pc' = "review"
    /\ UNCHANGED <<env, report, recipes, idx, branchname, run_results,
                   branch_version, imported, failed, payload, pre>>

\* lines 394-401 leaving the else branch when no token is set
Review_needs_token ==
    /\ pc = "review"
    /\ IF GITHUB_TOKEN = ""
       THEN UNCHANGED <<log, run_results, imported>>
       ELSE /\ \E created \in BOOLEAN :
                  log' = log \o Stamp(pull_request(repo, GITHUB_TOKEN,
                                                   branch_version, created).cmds)
            /\ run_results' = [run_results EXCEPT
                                  !["imported"][1] = dict_set(@, "branchname", branchname)]
            /\ imported' = Append(imported, run_results'["imported"][1])
    /\ pc' = "loop"
    /\ UNCHANGED <<env, repo, report, recipes, idx, branchname, branch_version,
                   push_result, failed, git_errors, exc, payload, pre>>

\* lines 396-401 with the item annotated with the name that was pushed
Review_pushed_name ==
    /\ pc = "review"
    /\ \E created \in BOOLEAN :
          LET res == pull_request(repo, GITHUB_TOKEN, branch_version, created)
          IN  /\ log' = log \o Stamp(res.cmds)
              /\ (GITHUB_TOKEN = "" => created)
    /\ run_results' = [run_results EXCEPT
                          !["imported"][1] = dict_set(@, "branchname", branch_version)]
    /\ imported' = Append(imported, run_results'["imported"][1])
    /\ pc' = "loop"
    /\ UNCHANGED <<env, repo, report, recipes, idx, branchname, branch_version,
                   push_result, failed, git_errors, exc, payload, pre>>

\* lines 396-401
Review ==
    /\ pc = "review"
    /\ \E created \in BOOLEAN :
          LET res == pull_request(repo, GITHUB_TOKEN, branch_version, created)
          IN  /\ log' = log \o Stamp(res.cmds)
              /\ (GITHUB_TOKEN = "" => created)
    /\ run_results' = [run_results EXCEPT
                          !["imported"][1] = dict_set(@, "branchname", branchname)]
    /\ imported' = Append(imported, run_results'["imported"][1])
    /\ pc' = "loop"
    /\ UNCHANGED <<env, repo, report, recipes, idx, branchname, branch_version,
                   push_result, failed, git_errors, exc, payload, pre>>

\* lines 403-409; requests.post answers (the status is only printed) or raises
Notify ==
    /\ pc = "notify"
    /\ IF ~(WEBHOOK_URL # "")
       THEN pc' = "done" /\ UNCHANGED <<payload, log, exc>>
       ELSE /\ payload' = format_slack_message(imported, failed, git_errors)
            /\ \E answered \in BOOLEAN :
                  /\ log' = log \o <<[Cmd("slack", NoName,
                                          [ok |-> answered, err |-> ""], repo)
                                         EXCEPT !.i = idx + 1]>>
                  /\ IF answered THEN pc' = "done" /\ exc' = exc
                                 ELSE Abort(ConnectionError)
    /\ UNCHANGED <<env, repo, report, recipes, idx, locals, lists, pre>>

Next ==
    \/ Start
    \/ Loop
    \/ Derive
    \/ Ensure
    \/ RunTool
    \/ Parse
    \/ Record
    \/ Commit
    \/ Rename
    \/ Push
    \/ Review
    \/ Notify

(***************************************************************************)
(* The states the program starts in.                                       *)
(***************************************************************************)
RECURSIVE SeqsUpTo(_, _)
SeqsUpTo(S, n) ==
    IF n = 0 THEN {<<>>}
    ELSE LET shorter == SeqsUpTo(S, n - 1)
         IN  shorter \cup {Append(s, x) : s \in shorter, x \in S}

Repo(branches, head) ==
    [branches |-> branches, head |-> head, dirty |-> FALSE, origin |-> {}]

\* checkouts the batch may start from: the trunk, and branches left by earlier runs
InitialRepos ==
    {Repo({master}, master),
     Repo({main}, main),
     Repo({master, foo}, master),
     Repo({master, foo}, foo),
     Repo({master, foo, foo_2}, master),
     Repo({master, foo_12}, master),
     Repo({master, foo_12, foo_12_2}, master)}

NoSnapshot ==
    [branches |-> {}, head |-> NoName, imported |-> <<>>, failed |-> <<>>,
     git_errors |-> <<>>]

Defaults ==
    /\ recipes = <<>>
    /\ idx = 0
    /\ branchname = NoName
    /\ run_results = [imported |-> <<>>, failed |-> <<>>]
    /\ branch_version = NoName
    /\ push_result = [success |-> TRUE]
    /\ exc = NoExc
    /\ payload = NoPayload
    /\ log = <<>>
    /\ pre = NoSnapshot

Init ==
    /\ INPUT_RECIPES \in SeqsUpTo(Identifiers, MaxRecipes)
    /\ overrides \in Listings
    /\ (Truthy(INPUT_RECIPES) => overrides = <<>>)
    /\ WEBHOOK_URL \in {"", "https://hooks.slack.com/services/T"}
    /\ GITHUB_TOKEN \in {"", "ghp_token"}
    /\ repo \in InitialRepos
    /\ report \in {NoFile}
    /\ pc = "start"
    /\ imported = <<>>
    /\ failed = <<>>
    /\ git_errors = <<>>
    /\ Defaults

Spec == Init /\ [][Next]_vars

(***************************************************************************)
(* format_slack_message on its own: the three lists are drawn from bounded *)
(* sets and the function is applied to them.                               *)
(***************************************************************************)
ComposeItems ==
    {[name |-> Foo, version |-> v12, branchname |-> foo],
     [name |-> Foo, version |-> v13, branchname |-> foo_2]}
ComposeFailures == {Failure1(IdFoo), Failure2(IdBar)}
ComposeGitErrors ==
    {[success |-> FALSE, error |-> GitError("remote rejected"), branch |-> b] :
        b \in {foo_12, foo_12_2}}

InitCompose ==
    /\ INPUT_RECIPES = <<>>
    /\ overrides = <<>>
    /\ WEBHOOK_URL = "https://hooks.slack.com/services/T"
    /\ GITHUB_TOKEN = ""
    /\ repo = Repo({master}, master)
    /\ report = NoFile
    /\ pc = "compose"
    /\ imported \in SeqsUpTo(ComposeItems, MaxItems)
    /\ failed \in SeqsUpTo(ComposeFailures, MaxItems)
    /\ git_errors \in SeqsUpTo(ComposeGitErrors, MaxItems)
    /\ Defaults

\* line 408
Compose ==
    /\ pc = "compose"
    /\ payload' = format_slack_message(imported, failed, git_errors)
    /\ pc' = "composed"
    /\ UNCHANGED <<env, repo, report, recipes, idx, locals, lists, exc, log, pre>>

NextCompose == Compose

SpecCompose == InitCompose /\ [][NextCompose]_vars

(***************************************************************************)
(* parse_recipe_name on its own: the identifier is drawn from the texts    *)
(* over a small alphabet (a capital, a small letter, a space, a dot) with  *)
(* the marker .munki, in either case, put in up to two places; no local    *)
(* branch collides with the result.                                        *)
(***************************************************************************)
IdAlphabet == {"A", "b", " ", "."}
MarkerSpellings == {<<>>, MunkiMarker, <<".","M","u","N","K","I">>}
BoundedIdentifiers ==
    {p \o m1 \o q \o m2 : p \in SeqsUpTo(IdAlphabet, MaxIdLen), m1 \in MarkerSpellings,
                          q \in SeqsUpTo(IdAlphabet, MaxIdLen), m2 \in MarkerSpellings}

InitBaseName ==
    /\ recipes \in {<<id>> : id \in BoundedIdentifiers}
    /\ idx = 1
    /\ INPUT_RECIPES = <<>>
    /\ overrides = <<>>
    /\ WEBHOOK_URL = ""
    /\ GITHUB_TOKEN = ""
    /\ repo = Repo({master}, master)
    /\ report = NoFile
    /\ pc = "derive"
    /\ branchname = NoName
    /\ run_results = [imported |-> <<>>, failed |-> <<>>]
    /\ branch_version = NoName
    /\ push_result = [success |-> TRUE]
    /\ imported = <<>>
    /\ failed = <<>>
    /\ git_errors = <<>>
    /\ exc = NoExc
    /\ payload = NoPayload
    /\ log = <<>>
    /\ pre = Snapshot

\* line 368 and nothing after it
NextBaseName == Derive

SpecBaseName == InitBaseName /\ [][NextBaseName]_vars

(***************************************************************************)
(* Reading the history.                                                    *)
(***************************************************************************)
Last(q) == q[Len(q)]
Events(op) == SelectSeq(log, LAMBDA e : e.op = op)
Terminated == pc \in {"done", "aborted"}

\* recipe i reached its branch-derivation step
Derived(i) == \E k \in DOMAIN log : log[k].op = "derive" /\ log[k].i = i

\* the base name derived for recipe i
DerivedName(i) == log[CHOOSE k \in DOMAIN log : log[k].op = "derive" /\ log[k].i = i].arg

FailedPushes == SelectSeq(log, LAMBDA e : e.op = "push" /\ ~e.ok)
OkPushes == SelectSeq(log, LAMBDA e : e.op = "push" /\ e.ok)

(***************************************************************************)
(* C1. Failure isolation: when a recipe's processing hits a fatal error    *)
(* (branch-ensure, report, commit or rename failure), the recipes after it *)
(* are still processed: once the batch has ended, every recipe of it has   *)
(* reached its branch-derivation step.                                     *)
(* The code catches none of these exceptions, so this is violated.         *)
(***************************************************************************)
C1_FailureIsolation ==
    Terminated => \A i \in 1..Len(recipes) : Derived(i)

(***************************************************************************)
(* C2. Batch termination: whatever the per-recipe outcomes, the run ends   *)
(* in its normal completion state and never in an error state.             *)
(* A failed delivery of the notification is left aside: the claim is about *)
(* what the recipes do.  Violated: an uncaught exception ends the run.      *)
(***************************************************************************)
C2_NeverEndsInError == pc = "aborted" => exc.type = "ConnectionError"

(***************************************************************************)
(* C3. Push failure is data: each failed push of branch b with error e     *)
(* appends exactly one record {success: false, error: e, branch: b} to     *)
(* git_errors, no pull request is opened for b, the item is not appended   *)
(* to imported, and the batch goes on with the next recipe.                *)
(***************************************************************************)
C3_PushFailureIsData ==
    /\ Len(git_errors) = Len(FailedPushes)
    /\ \A k \in DOMAIN git_errors :
          git_errors[k] = [success |-> FALSE,
                           error |-> GitError(FailedPushes[k].err),
                           branch |-> FailedPushes[k].arg]
    /\ Len(imported) <= Len(OkPushes)
    /\ \A k \in DOMAIN log :
          (log[k].op = "push" /\ ~log[k].ok) =>
             /\ \A j \in DOMAIN log : ~(log[j].op = "pr" /\ log[j].arg = log[k].arg)
             /\ k = Len(log) =>
                   /\ pc \in {"loop", "derive", "notify", "done"}
                   /\ imported = pre.imported
             /\ k < Len(log) =>
                   /\ log[k + 1].op \in {"derive", "slack"}
                   /\ log[k + 1].i = log[k].i + 1

\* a push failed and a later recipe of the batch was processed to its end
C3_Witness ==
    /\ pc = "done"
    /\ \E k \in DOMAIN log :
          /\ log[k].op = "push" /\ ~log[k].ok
          /\ \E j \in DOMAIN log : j > k /\ log[j].op = "push" /\ log[j].ok
    /\ Len(git_errors) = 1
    /\ Len(imported) = 1

(***************************************************************************)
(* C4. Every item of imported belongs to a recipe whose push succeeded and *)
(* carries a non-empty branchname equal to the base name derived for that  *)
(* recipe (not the version-qualified name the branch was renamed to).      *)
(***************************************************************************)
C4_ImportedCarryBaseName ==
    /\ Len(imported) <= Len(OkPushes)
    /\ \A k \in DOMAIN imported :
          /\ "branchname" \in DOMAIN imported[k]
          /\ imported[k]["branchname"] # NoName
          /\ imported[k]["branchname"] = DerivedName(OkPushes[k].i)
          /\ imported[k]["branchname"] # OkPushes[k].arg

\* two recipes were imported, the first under the collision name foo-2
C4_Witness ==
    /\ Len(imported) = 2
    /\ imported[1]["branchname"] = foo_2
    /\ imported[2]["branchname"] = bar

(***************************************************************************)
(* C5. No-op law.  As claimed: a recipe whose parsed report has imported   *)
(* and failed both empty leaves the set of local branches, the current     *)
(* branch and the three lists as they were before the recipe.              *)
(***************************************************************************)
NoOpFinished ==
    /\ pc = "loop"
    /\ log # <<>>
    /\ Last(log).op = "parse"
    /\ Last(log).ok
    /\ Last(log).i = idx
    /\ ~Truthy(run_results["imported"])
    /\ ~Truthy(run_results["failed"])

ListsAsBefore ==
    /\ imported = pre.imported
    /\ failed = pre.failed
    /\ git_errors = pre.git_errors

C5_NoOpLaw ==
    NoOpFinished =>
       /\ repo.branches = pre.branches
       /\ repo.head = pre.head
       /\ ListsAsBefore

(* C5 as amended: such a recipe issues no commit, rename, push or pull     *)
(* request and leaves the three lists unchanged; the feature branch that   *)
(* was created before the tool ran remains and is the current branch.      *)
C5_NoOpAfterBranch ==
    NoOpFinished =>
       /\ ListsAsBefore
       /\ branchname \notin pre.branches
       /\ repo.branches = pre.branches \cup {branchname}
       /\ repo.head = branchname
       /\ \A k \in DOMAIN log :
             log[k].i = idx => log[k].op \in {"derive", "checkout", "checkout_b",
                                              "autopkg", "parse"}

\* the second recipe of a batch ended as a no-op after the first was imported
C5_Witness ==
    /\ NoOpFinished
    /\ idx = 2
    /\ Len(imported) = 1

(***************************************************************************)
(* C6. Branch-name uniqueness.  As claimed: whenever a branch creation or  *)
(* a rename is issued with name n, n is not in the live branch list at     *)
(* that instant, also when the base name and its -2 form both exist.       *)
(***************************************************************************)
Naming == {"checkout_b", "rename"}

C6_NamesAreFresh ==
    \A k \in DOMAIN log : log[k].op \in Naming => log[k].arg \notin log[k].live

(* C6 as amended: n is not in the live branch list unless n is the -2 form *)
(* of a name that is in the list too (a second collision, which the code   *)
(* does not resolve); git then rejects the command.                        *)
C6_FreshUnlessSecondCollision ==
    \A k \in DOMAIN log :
       (log[k].op \in Naming /\ log[k].arg \in log[k].live) =>
          /\ str_endswith(log[k].arg, Suffix2)
          /\ SubSeq(log[k].arg, 1, Len(log[k].arg) - Len(Suffix2)) \in log[k].live
          /\ ~log[k].ok

\* a first collision was resolved at a creation and at a later rename
C6_Witness ==
    \E k, j \in DOMAIN log :
       /\ k < j
       /\ log[k].op = "checkout_b" /\ log[k].ok /\ log[k].arg = foo_2
       /\ foo \in log[k].live
       /\ log[j].op = "rename" /\ log[j].ok /\ str_endswith(log[j].arg, Suffix2)
       /\ SubSeq(log[j].arg, 1, Len(log[j].arg) - Len(Suffix2)) \in log[j].live

(***************************************************************************)
(* C7. As claimed: one recipe's run adds a record to at most one of the    *)
(* lists imported and failed, whatever the shape of its report.            *)
(***************************************************************************)
AddedImported == Len(imported) - Len(pre.imported)
AddedFailed == Len(failed) - Len(pre.failed)
InRecipe == pc \in {"derive", "ensure", "run", "parse", "record", "commit",
                    "rename", "push", "review", "loop"} /\ idx >= 1

C7_AtMostOneList ==
    InRecipe => ~(AddedImported > 0 /\ AddedFailed > 0)

(* C7 as amended: one recipe's run adds at most one record to imported and *)
(* at most one to failed; it adds to both exactly when its report has both *)
(* imported rows and failure rows and its push succeeded.                  *)
\* the current recipe was pushed and has passed lines 396-401
ImportFinished ==
    /\ pc = "loop"
    /\ log # <<>>
    /\ Last(log).i = idx
    /\ \/ Last(log).op = "push" /\ Last(log).ok
       \/ Last(log).op = "pr"

C7_AtMostOneEach ==
    InRecipe =>
       /\ AddedImported \in {0, 1}
       /\ AddedFailed \in {0, 1}
       /\ SubSeq(imported, 1, Len(pre.imported)) = pre.imported
       /\ SubSeq(failed, 1, Len(pre.failed)) = pre.failed
       /\ (AddedImported = 1 /\ AddedFailed = 1) =>
             /\ Truthy(ImportedRows(report))
             /\ Truthy(report.data["failures"])
             /\ ImportFinished
       /\ (ImportFinished /\ Truthy(report.data["failures"])) =>
             AddedImported = 1 /\ AddedFailed = 1

\* a report with imported rows and failure rows, pushed: one record in each list
C7_Witness ==
    /\ pc = "loop"
    /\ idx = 2
    /\ AddedImported = 1
    /\ AddedFailed = 1
    /\ Len(failed) = 2

(***************************************************************************)
(* C8. format_slack_message returns its sections in the order summary,     *)
(* imported or nothing-to-import notice, failures, git errors: the summary *)
(* always; the notice iff imported is empty, else one entry per imported   *)
(* item in list order; the failures section iff failed is non-empty and    *)
(* the git-errors section iff git_errors is non-empty, each with one entry *)
(* per record in list order.                                               *)
(***************************************************************************)
Count(b) == IF b THEN 1 ELSE 0
TextArgs(block) == block["text"]["text"]["args"]
HasHeader(attachment, header) ==
    \E k \in DOMAIN attachment["blocks"] : attachment["blocks"][k] = header

C8_SectionsInOrder ==
    pc = "composed" =>
       LET a == payload["attachments"]
           first == a[1]["blocks"]
           nf == Count(failed # <<>>)
           ng == Count(git_errors # <<>>)
       IN  /\ payload["blocks"] = <<>>
           /\ Len(a) = 1 + nf + ng
           /\ first[1] = SummaryBlock
           /\ IF imported = <<>>
              THEN first = <<SummaryBlock, NothingBlock>>
              ELSE /\ Len(first) = 2 + Len(imported)
                   /\ first[2] = ImportedHeader
                   /\ \A k \in DOMAIN imported :
                         TextArgs(first[2 + k]) =
                            [name |-> imported[k]["branchname"],
                             version |-> imported[k]["version"]]
           /\ \A k \in 2..Len(a) : ~HasHeader(a[k], SummaryBlock)
           /\ ~HasHeader(a[1], FailuresHeader) /\ ~HasHeader(a[1], GitHeader)
           /\ nf = 1 =>
                 /\ a[2]["blocks"][1] = Divider
                 /\ a[2]["blocks"][2] = FailuresHeader
                 /\ Len(a[2]["blocks"]) = 2 + 2 * Len(failed)
                 /\ \A k \in DOMAIN failed :
                       /\ TextArgs(a[2]["blocks"][2 * k + 1]) =
                             [name |-> failed[k]["recipe"]]
                       /\ TextArgs(a[2]["blocks"][2 * k + 2]) =
                             [info |-> failed[k]["message"]]
           /\ nf = 0 => \A k \in DOMAIN a : ~HasHeader(a[k], FailuresHeader)
           /\ ng = 1 =>
                 /\ a[1 + nf + 1]["blocks"][1] = Divider
                 /\ a[1 + nf + 1]["blocks"][2] = GitHeader
                 /\ Len(a[1 + nf + 1]["blocks"]) = 2 + Len(git_errors)
                 /\ \A k \in DOMAIN git_errors :
                       TextArgs(a[1 + nf + 1]["blocks"][2 + k]) =
                          [name |-> git_errors[k]["branch"],
                           info |-> git_errors[k]["error"]]
           /\ ng = 0 => \A k \in DOMAIN a : ~HasHeader(a[k], GitHeader)

\* a message composed from two imported items, two failures and two git errors
C8_Witness ==
    /\ pc = "composed"
    /\ Len(imported) = 2 /\ imported[1] # imported[2]
    /\ Len(failed) = 2 /\ failed[1] # failed[2]
    /\ Len(git_errors) = 2 /\ git_errors[1] # git_errors[2]
    /\ Len(payload["attachments"]) = 3

(***************************************************************************)
(* C9. For a readable report that lacks the top-level key summary_results, *)
(* or failures, or both, parse_report_plist returns normally, with an      *)
(* empty imported list, respectively an empty failed list.                 *)
(* Violated: the code subscripts both keys, which raises KeyError.         *)
(***************************************************************************)
JustParsed ==
    /\ log # <<>>
    /\ Last(log).op = "parse"
    /\ pc \in {"record", "aborted"}

C9_MissingKeysParse ==
    (JustParsed /\ report.state = "plist") =>
       /\ ("summary_results" \notin DOMAIN report.data =>
              pc = "record" /\ run_results["imported"] = <<>>)
       /\ ("failures" \notin DOMAIN report.data =>
              pc = "record" /\ run_results["failed"] = <<>>)

(***************************************************************************)
(* C10. Base-name collision rule: with b the normalized form of the recipe *)
(* identifier and E the branch list at the moment of the call, the derived *)
(* name is b when b is not in E and b followed by -2 when it is; E counts  *)
(* the branches created or renamed by earlier recipes of the batch.        *)
(***************************************************************************)
BaseNameOf ==
    [id \in Identifiers \cup {FileFoo, FileMyApp, FileHidden} |-> normalize(id)]

C10_BaseNameCollision ==
    \A k \in DOMAIN log :
       log[k].op = "derive" =>
          LET b == BaseNameOf[recipes[log[k].i]]
          IN  /\ b \notin log[k].live => log[k].arg = b
              /\ b \in log[k].live => log[k].arg = b \o Suffix2

\* the second recipe collides with the branch the first recipe left behind
C10_Witness ==
    \E k, j \in DOMAIN log :
       /\ k < j
       /\ log[k].op = "checkout_b" /\ log[k].ok /\ log[k].arg = foo /\ log[k].i = 1
       /\ log[j].op = "derive" /\ log[j].i = 2 /\ log[j].arg = foo_2
       /\ foo \in log[j].live

(***************************************************************************)
(* C11. Base-name normalization: with no colliding local branch, the base  *)
(* name derived from an identifier holds no space and no capital letter;   *)
(* it is the identifier with every capital made small and every space made *)
(* a hyphen, cut before the first place where .munki occurs in that text;  *)
(* and deriving the base name of the result gives the result again.        *)
(***************************************************************************)
C11_BaseNameNormalized ==
    pc = "ensure" =>
       LET id == recipes[idx]
           mapped == [k \in 1..Len(id) |->
                         IF id[k] = " " THEN "-"
                         ELSE IF \E u \in DOMAIN UpperChars : UpperChars[u] = id[k]
                              THEN LowerChars[CHOOSE u \in DOMAIN UpperChars :
                                                         UpperChars[u] = id[k]]
                              ELSE id[k]]
           MarkerAt(s, p) ==
               /\ p + 5 <= Len(s)
               /\ \A j \in 1..6 : s[p + j - 1] = MunkiMarker[j]
           n == Len(branchname)
       IN  /\ \A k \in 1..n : branchname[k] # " "
           /\ \A k \in 1..n : \A u \in DOMAIN UpperChars : branchname[k] # UpperChars[u]
           /\ n <= Len(id)
           /\ \A k \in 1..n : branchname[k] = mapped[k]
           /\ n < Len(id) => MarkerAt(mapped, n + 1)
           /\ \A p \in 1..n : ~MarkerAt(mapped, p)
           /\ parse_recipe_name(branchname, repo) = branchname

\* "A .MuNKIb.munki": a capital, a space, and text between two markers
C11_Witness ==
    /\ pc = "ensure"
    /\ recipes = <<(<<"A", " ">> \o <<".","M","u","N","K","I">> \o <<"b">> \o MunkiMarker)>>
    /\ branchname = <<"a", "-">>

(***************************************************************************)
(* C12. Notification ordering: the notification is delivered at most once, *)
(* only when every recipe of the batch has been processed, and no command  *)
(* follows it; with no endpoint configured nothing is delivered and every  *)
(* recipe of an ended batch has still been processed.                      *)
(* The delivery is ordered as claimed, but an uncaught exception (C1) ends *)
(* a batch before its last recipe whether or not an endpoint is set.       *)
(***************************************************************************)
C12_NotifyOnceAtEnd ==
    /\ Len(Events("slack")) <= 1
    /\ \A k \in DOMAIN log :
          log[k].op = "slack" =>
             /\ k = Len(log)
             /\ Terminated
             /\ \A i \in 1..Len(recipes) : Derived(i)
    /\ WEBHOOK_URL = "" =>
          /\ Events("slack") = <<>>
          /\ Terminated => \A i \in 1..Len(recipes) : Derived(i)

\* what holds of the delivery itself
C12_DeliveryLastAndOnce ==
    /\ Len(Events("slack")) <= 1
    /\ \A k \in DOMAIN log :
          log[k].op = "slack" =>
             /\ k = Len(log)
             /\ Terminated
             /\ \A i \in 1..Len(recipes) : Derived(i)
    /\ WEBHOOK_URL = "" => Events("slack") = <<>>

(***************************************************************************)
(* C13. Trunk consistency: the base of every review request is the branch  *)
(* the processor switched to before it created the feature branch of that  *)
(* recipe.                                                                 *)
(* Violated: create_feature_branch checks out master, pull_request gives   *)
(* gh the base main.                                                       *)
(***************************************************************************)
C13_ReviewBaseIsTrunk ==
    \A k, j \in DOMAIN log :
       (log[k].op = "pr" /\ log[j].op = "checkout" /\ log[j].i = log[k].i) =>
          log[k].base = log[j].arg

\* the commands of one recipe, in the order handle_recipes issues them
StepOrder ==
    <<"derive", "checkout", "checkout_b", "autopkg", "parse",
      "add", "commit", "rename", "push", "pr">>

\* the step that follows a step, for all but the last one
StepAfter ==
    [op \in {StepOrder[p] : p \in 1..(Len(StepOrder) - 1)} |->
        StepOrder[(CHOOSE p \in DOMAIN StepOrder : StepOrder[p] = op) + 1]]

\* the commands issued for recipe i, in the order of their issue
Steps(i) == SelectSeq(log, LAMBDA e : e.i = i)

(***************************************************************************)
(* C14. Per-recipe step order: the commands issued for a recipe are, in    *)
(* this order, a prefix of: derive the branch name, ensure the branch      *)
(* (checkout of the trunk, checkout -b), run the tool, parse the report,   *)
(* commit (add, commit), rename, push, review request.  So no commit comes *)
(* before the tool run and the parse of its recipe, no push before commit  *)
(* and rename, and a review request directly follows a successful push of  *)
(* the same branch.  The recipes' commands do not interleave.              *)
(***************************************************************************)
C14_StepOrder ==
    /\ \A k \in DOMAIN log :
          log[k].op # "slack" =>
             IF k = 1 \/ log[k - 1].i # log[k].i
             THEN /\ log[k].op = StepOrder[1]
                  /\ k > 1 => log[k - 1].i < log[k].i
             ELSE /\ log[k - 1].op \in DOMAIN StepAfter
                  /\ log[k].op = StepAfter[log[k - 1].op]
    /\ \A k \in DOMAIN log :
          log[k].op = "pr" =>
             /\ log[k - 1].op = "push"
             /\ log[k - 1].ok
             /\ log[k - 1].arg = log[k].arg

\* the first recipe stopped after the parse of an empty report, the second
\* one went through every step up to its review request
C14_Witness ==
    /\ pc = "done"
    /\ Len(recipes) = 2
    /\ Len(Steps(1)) = 5
    /\ Len(Steps(2)) = 10

\* the name the branch of recipe i was renamed to
RenamedTo(i) ==
    log[CHOOSE k \in DOMAIN log : log[k].op = "rename" /\ log[k].i = i].arg

(***************************************************************************)
(* C15. Version qualification: the rename of branch b for version v names  *)
(* b-v when b-v is not a local branch at that moment and b-v-2 when it is; *)
(* when the rename succeeds that name is the one returned, it replaces b   *)
(* among the local branches, and it is the branch that is pushed, the head *)
(* of the review request and the branch of the gitErrors record of a       *)
(* failed push.                                                            *)
(***************************************************************************)
C15_VersionQualified ==
    /\ (log # <<>> /\ Last(log).op = "rename") =>
          LET e == Last(log)
              plain == branchname \o Hyphen \o run_results["imported"][1]["version"]
          IN  /\ plain \notin e.live => e.arg = plain
              /\ plain \in e.live => e.arg = plain \o Suffix2
              /\ e.ok => /\ branch_version = e.arg
                         /\ pc = "push"
                         /\ repo.branches = (e.live \ {branchname}) \cup {e.arg}
                         /\ repo.head = e.arg
    /\ \A k \in DOMAIN log :
          log[k].op = "push" =>
             /\ k > 1
             /\ log[k - 1].op = "rename" /\ log[k - 1].ok
             /\ log[k - 1].i = log[k].i
             /\ log[k].arg = log[k - 1].arg
    /\ \A k \in DOMAIN log : log[k].op = "pr" => log[k].arg = RenamedTo(log[k].i)
    /\ Len(git_errors) = Len(FailedPushes)
    /\ \A k \in DOMAIN git_errors :
          git_errors[k]["branch"] = RenamedTo(FailedPushes[k].i)

\* foo-1.2 existed, so the first branch became foo-1.2-2 and its failed push
\* was recorded under that name; the second branch became bar-1.2 and was reviewed
C15_Witness ==
    /\ Len(git_errors) = 1
    /\ git_errors[1]["branch"] = foo_12_2
    /\ \E k \in DOMAIN log :
          /\ log[k].op = "rename" /\ log[k].ok
          /\ foo_12 \in log[k].live /\ log[k].arg = foo_12_2
    /\ \E k \in DOMAIN log : log[k].op = "pr" /\ log[k].arg = bar \o Hyphen \o v12

(***************************************************************************)
(* C16. First-entry-only policy: once a recipe's report (m failure         *)
(* records, k imported rows) has been acted on, failed has grown by the    *)
(* first failure record alone if m >= 1 and not at all otherwise; the      *)
(* commit is made for the first imported row, and imported grows by that   *)
(* row alone (with its branchname) once the recipe was pushed.  A recipe   *)
(* adds at most one record to failed, at most one to imported and          *)
(* git_errors together, issues at most one commit and one push, and the    *)
(* lists only grow at their ends.                                          *)
(***************************************************************************)
\* lines 378-380 are behind the current recipe
FailuresRecorded ==
    /\ idx >= 1
    /\ log # <<>>
    /\ Last(log).i = idx
    /\ \/ pc \in {"commit", "rename", "push", "review"}
       \/ pc = "loop" /\ Last(log).op \in {"parse", "push", "pr"}

AddedGitErrors == Len(git_errors) - Len(pre.git_errors)

C16_FirstEntryOnly ==
    InRecipe =>
       /\ SubSeq(imported, 1, Len(pre.imported)) = pre.imported
       /\ SubSeq(failed, 1, Len(pre.failed)) = pre.failed
       /\ SubSeq(git_errors, 1, Len(pre.git_errors)) = pre.git_errors
       /\ AddedFailed \in {0, 1}
       /\ AddedImported + AddedGitErrors \in {0, 1}
       /\ \A k \in DOMAIN log :
             (log[k].i = idx /\ log[k].op \in {"commit", "push"}) =>
                \A j \in (k + 1)..Len(log) : log[j].op # log[k].op
       /\ FailuresRecorded =>
             LET failures == report.data["failures"]
             IN  /\ Len(failures) >= 1 => failed = Append(pre.failed, failures[1])
                 /\ Len(failures) = 0 => failed = pre.failed
       /\ ~FailuresRecorded => failed = pre.failed
       /\ (log # <<>> /\ Last(log).op = "commit") =>
             Last(log).msg = commit_message(ImportedRows(report)[1])
       /\ ImportFinished =>
             LET first == ImportedRows(report)[1]
             IN  imported = Append(pre.imported,
                                   [name |-> first["name"], version |-> first["version"],
                                    branchname |-> branchname])
       /\ ~ImportFinished => imported = pre.imported

\* the first recipe reported two failures, the second two imported rows: one
\* record of each was kept
C16_Witness ==
    /\ ImportFinished
    /\ idx = 2
    /\ Len(ImportedRows(report)) = 2
    /\ Len(imported) = 1
    /\ Len(pre.failed) = 1
    /\ failed = pre.failed

(***************************************************************************)
(* C17. Fresh branch off trunk: every feature branch is created while the  *)
(* current branch is the trunk the processor switches to (master), also    *)
(* when the recipe before left the working tree on its own feature branch; *)
(* the start point is never a branch derived for or renamed by a recipe of *)
(* the batch; and after a successful branch-ensure the current branch is   *)
(* the new feature branch, which did not exist before the recipe.          *)
(***************************************************************************)
C17_FreshBranchOffTrunk ==
    /\ \A k \in DOMAIN log :
          log[k].op = "checkout_b" =>
             /\ log[k].head = master
             /\ \A j \in 1..(k - 1) :
                   log[j].op \in {"derive", "rename"} => log[k].head # log[j].arg
    /\ pc = "run" =>
          /\ Last(log).op = "checkout_b" /\ Last(log).ok
          /\ Last(log).arg = branchname
          /\ repo.head = branchname
          /\ branchname \notin pre.branches
          /\ repo.branches = pre.branches \cup {branchname}

\* the first recipe left the working tree on foo-1.2; the branch of the second
\* recipe was created from master all the same
C17_Witness ==
    /\ pc = "run"
    /\ idx = 2
    /\ pre.head = foo_12
    /\ Last(log).head = master
    /\ repo.head = bar

(***************************************************************************)
(* C18. Review soft-skip: with no access token no review request is issued *)
(* and the skipped review ends no batch in error; with or without a token, *)
(* imported holds, in order, the first reported row of every recipe whose  *)
(* push succeeded, annotated with the base name derived for the recipe, so *)
(* the lists do not depend on the token.                                   *)
(***************************************************************************)
C18_ReviewSoftSkip ==
    /\ GITHUB_TOKEN = "" => Events("pr") = <<>>
    /\ Len(git_errors) = Len(FailedPushes)
    /\ Len(imported) = Len(OkPushes) - Count(pc = "review")
    /\ \A k \in DOMAIN imported :
          imported[k] = [name |-> Row1["name"], version |-> Row1["version"],
                         branchname |-> DerivedName(OkPushes[k].i)]
    /\ (log # <<>> /\ Last(log).op \in {"push", "pr"}) => pc # "aborted"

\* no token: two recipes were pushed and both are in imported, no review request
C18_Witness ==
    /\ GITHUB_TOKEN = ""
    /\ pc = "done"
    /\ Len(OkPushes) = 2
    /\ Len(imported) = 2
    /\ Events("pr") = <<>>

(***************************************************************************)
(* C19. The trunk is never written by the batch: provided no derived base  *)
(* name is the trunk's name, every commit (git add, git commit) is made    *)
(* while the current branch is the feature branch that was created, as a   *)
(* new branch, for the recipe being processed, which is neither master nor *)
(* main; and no rename and no push names master or main, as source or as   *)
(* target.                                                                 *)
(***************************************************************************)
Trunks == {master, main}

C19_TrunkNeverWritten ==
    (\A k \in DOMAIN log : log[k].op = "derive" => log[k].arg \notin Trunks) =>
       /\ \A k \in DOMAIN log :
             log[k].op = "commit" =>
                /\ log[k].head \notin Trunks
                /\ log[k - 1].op = "add" /\ log[k - 1].head = log[k].head
                /\ \E j \in 1..(k - 1) :
                      /\ log[j].op = "checkout_b" /\ log[j].ok
                      /\ log[j].i = log[k].i
                      /\ log[j].arg = log[k].head
                      /\ log[j].arg \notin log[j].live
       /\ \A k \in DOMAIN log :
             log[k].op \in {"rename", "push"} => log[k].arg \notin Trunks
       /\ (log # <<>> /\ Last(log).op = "rename") => branchname \notin Trunks
       /\ master \in pre.branches => master \in repo.branches

\* the second recipe committed on its own branch bar after the first one had
\* committed on foo, renamed it and pushed it
C19_Witness ==
    \E k, j \in DOMAIN log :
       /\ k < j
       /\ log[k].op = "push" /\ log[k].ok /\ log[k].i = 1
       /\ log[j].op = "commit" /\ log[j].ok /\ log[j].i = 2
       /\ log[j].head = bar

(***************************************************************************)
(* C20. Report freshness: the report parsed for a recipe is the one the    *)
(* tool run of that recipe wrote; when that run wrote no report, the file  *)
(* an earlier recipe left at report.plist is not parsed again, so nothing  *)
(* of it is committed, pushed or recorded a second time for this recipe.   *)
(* Violated: report.plist is never removed, and parse_report_plist reads   *)
(* whatever is there.                                                      *)
(***************************************************************************)
\* the tool run of the current recipe ended without writing report.plist
WroteNothing ==
    \E k \in DOMAIN log : log[k].op = "autopkg" /\ log[k].i = idx /\ ~log[k].ok

C20_ReportIsFresh ==
    /\ \A k \in DOMAIN log :
          (log[k].op = "parse" /\ log[k].ok) =>
             /\ k > 1
             /\ log[k - 1].op = "autopkg"
             /\ log[k - 1].i = log[k].i
             /\ log[k - 1].ok
    /\ (idx >= 1 /\ WroteNothing) =>
          /\ ListsAsBefore
          /\ \A k \in DOMAIN log :
                log[k].i = idx => log[k].op \notin {"add", "commit", "rename", "push", "pr"}

====
